---- MODULE Spec2Model ----
(***************************************************************************)
(* Model of the AR portal assembly (src/src/PortalSystem.ts, first class   *)
(* definition, lines 5-493): crossing detection with hysteresis,           *)
(* placement, and the content (splat) load life cycle.                     *)
(*                                                                         *)
(* Lengths are in centimetres, so the thresholds +/-0.12 m are +/-12 and   *)
(* the comparisons of the code are kept exactly.  Content containers       *)
(* (DropInViewer instances) are numbered in creation order; the splat mesh *)
(* of container v is identified by v, and 0 stands for null.              *)
(***************************************************************************)
EXTENDS Integers, Sequences, FiniteSets, TLC

\* ------------------------------------------------------------------ bounds
\* Number of loadSplat calls in a run.
MaxCalls == 3

\* loadSplat calls in the fit specification.
MaxFitLoads == 1

\* XR sessions started in the session specification.
MaxSessions == 2

\* Length of the door clip in mixer steps of 0.016 s.
AnimFrames == 2

\* ------------------------------------------------------- program constants
outsideThresholdZ == 12
insideThresholdZ == -12

\* Content-fit constants, in centimetres; factors are rationals n/d.
viewerBehindDoorZ == -90
\* this.frame.position.z of the loaded door, in centimetres.
framePositionZ == -2
portalOpeningWidth == 68
portalOpeningHeight == 175
portalFitPadding == [n |-> 161, d |-> 250]
portalAnchor == "bottomLeft"
portalOpeningScaleDefault == [n |-> 3, d |-> 4]
portalOpeningOffsetXDefault == 0

\* ------------------------------------------------------------------ inputs
\* Camera local-Z samples (cm): the sweep end points, the scenario samples
\* of the spec, both thresholds and their neighbours.
Samples == {100, 50, 30, 15, 13, 12, 5, -5, -12, -13, -15, -30, -100}

\* A camera as update sees it: has = FALSE is an XR ArrayCamera whose
\* cameras list is empty (effectiveCamera undefined).
Cameras == [has : {TRUE}, z : Samples] \cup {[has |-> FALSE, z |-> 0]}

\* Scene urls; loadSplat only passes the url on to the loader.
Urls == {"a"}

\* Errors the splat loader can reject with.
Errors == {"e1", "e2"}

\* --------------------------------------------------------------- rationals
RECURSIVE GCD(_, _)
GCD(a, b) == IF b = 0 THEN a ELSE GCD(b, a % b)

Abs(a) == IF a < 0 THEN -a ELSE a

\* The rational n/d in lowest terms with a positive denominator.
Rat(n, d) ==
    LET g == GCD(Abs(n), Abs(d))
        sgn == IF d < 0 THEN -1 ELSE 1
    IN [n |-> sgn * (n \div g), d |-> sgn * (d \div g)]

RInt(i) == [n |-> i, d |-> 1]
RMul(a, b) == Rat(a.n * b.n, a.d * b.d)
RDiv(a, b) == Rat(a.n * b.d, a.d * b.n)
RAdd(a, b) == Rat(a.n * b.d + b.n * a.d, a.d * b.d)
RSub(a, b) == Rat(a.n * b.d - b.n * a.d, a.d * b.d)
RNeg(a) == [n |-> -a.n, d |-> a.d]
RLt(a, b) == a.n * b.d < b.n * a.d
RLe(a, b) == a.n * b.d <= b.n * a.d
RMin(a, b) == IF RLt(b, a) THEN b ELSE a
RMax(a, b) == IF RLt(a, b) THEN b ELSE a

\* THREE.MathUtils.clamp(value, min, max) = max(min, min(max, value))
Clamp(x, lo, hi) == RMax(lo, RMin(hi, x))

\* A JavaScript number: a finite rational, NaN or +Infinity.
Fin(n, d) == [k |-> "fin", v |-> Rat(n, d)]
NaN == [k |-> "nan", v |-> RInt(0)]
Infinity == [k |-> "inf", v |-> RInt(0)]

\* Number.isFinite
IsFinite(x) == x.k = "fin"

\* x <= 0 in JavaScript: false for NaN and for +Infinity.
LeZero(x) == x.k = "fin" /\ x.v.n <= 0

\* ------------------------------------------------------------- fit inputs
\* The query string: openingScale and openingOffsetX are absent, a number or
\* text that Number() turns into NaN.
Absent == [k |-> "absent", v |-> RInt(0)]
DefaultParams == [openingScale |-> Absent, openingOffsetX |-> Absent]

\* Query strings of the fit specification.
FitParams ==
    {DefaultParams,
     [openingScale |-> Fin(1, 1), openingOffsetX |-> Absent],
     [openingScale |-> Fin(1, 20), openingOffsetX |-> Absent],
     [openingScale |-> NaN, openingOffsetX |-> Fin(2, 1)]}

\* What Box3.setFromObject and getSize report for the content (cm).
Bounds(sx, sy, minX, minY) ==
    [sizeX |-> sx, sizeY |-> sy, minX |-> minX, minY |-> minY]

\* The 2 m x 5 m content of the spec's scenario.
ScenarioBounds == Bounds(Fin(200, 1), Fin(500, 1), RInt(-100), RInt(-30))

\* Measured bounds in the fit specification: the scenario, a wide and a
\* 100 m content, a 5 mm content, and degenerate ones.
FitBounds ==
    {ScenarioBounds,
     Bounds(Fin(300, 1), Fin(100, 1), RInt(20), RInt(0)),
     Bounds(Fin(10000, 1), Fin(10000, 1), RInt(-5000), RInt(-5000)),
     Bounds(Fin(1, 2), Fin(1, 2), RInt(0), RInt(0)),
     Bounds(Fin(0, 1), Fin(500, 1), RInt(0), RInt(0)),
     Bounds(NaN, Fin(500, 1), RInt(0), RInt(0)),
     Bounds(Fin(200, 1), Infinity, RInt(0), RInt(0)),
     Bounds(Fin(200, 1), Fin(-10, 1), RInt(0), RInt(0))}

\* Measured bounds in the portal specification.
MainBounds == {ScenarioBounds}

\* World-space points, in decimetres.
Vec(x, y, z) == [x |-> x, y |-> y, z |-> z]

\* Ground hit positions and camera world positions given to place.
GroundPositions == {Vec(0, 0, -20), Vec(10, 0, -20)}
CameraPositions == {Vec(0, 16, 0)}

\* The same in the placement specification: level and raised ground, a
\* camera in front, to the side, behind and straight above a hit position.
PlaceGrounds == {Vec(0, 0, -20), Vec(10, 0, -20), Vec(0, 5, -20), Vec(-4, -3, 12)}
PlaceCameras == {Vec(0, 16, 0), Vec(-7, 12, 4), Vec(0, 16, -20), Vec(10, 2, -35)}

\* Scenario C of the spec: samples and the expected crossing state after each.
ScenarioZ == <<50, 30, 15, 5, -5, -15, -30>>
ScenarioInside == <<FALSE, FALSE, FALSE, FALSE, FALSE, TRUE, TRUE>>

VARIABLES
    groupVisible,       \* this.group.visible
    attached,           \* content containers that are children of this.group
    viewer,             \* this.viewer: id of the current container
    splatMesh,          \* this.splatMesh: owner container id, 0 = null
    isLoading,          \* this.isLoading
    isInside,           \* this.isInside
    lastCameraLocalZ,   \* this.lastCameraLocalZ: {} = null, {z} otherwise
    lastStencilEnabled, \* this.lastStencilEnabled
    meshAttr,           \* render attributes of each splat mesh and its material
    inflight,           \* containers whose addSplatScene has not settled
    calls,              \* one record per loadSplat call: its returned promise
    groupPosition,      \* this.group.position
    groupForward,       \* direction of the group's local +Z axis (orientation)
    door,               \* frame asset, its mixer and its stored clip action
    placeArgs,          \* observer: the arguments of the last place call
    mask,               \* this.mask: the opening's mesh and its material
    released,           \* content containers whose resources were disposed of
    xr,                 \* XRManager: session, hit-test source, hasPlaced
    geometry,           \* per container: own-space bounds of its content
    urlParams,          \* this.urlParams: the query string read by the fit
    xf,                 \* per container: its transform and its splat mesh's
    fitTimers,          \* per container: deferred fits not yet run
    fitObs,             \* observer: the last fit, its input and prior transform
    last,               \* the last operation and the state it started from
    scenarioPos,        \* observer: matched prefix of ScenarioZ
    sweep               \* observer: a monotone sweep of update samples

progVars == <<groupVisible, attached, viewer, splatMesh, isLoading, isInside,
              lastCameraLocalZ, lastStencilEnabled, meshAttr, inflight,
              groupPosition, groupForward, door, urlParams, xf, fitTimers>>
fitVars == <<urlParams, xf, fitTimers, fitObs>>
hostVars == <<mask, released, xr, geometry>>
NoPlace == [position |-> Vec(0, 0, 0), camPos |-> Vec(0, 0, 0)]
vars == <<groupVisible, attached, viewer, splatMesh, isLoading, isInside,
          lastCameraLocalZ, lastStencilEnabled, meshAttr, inflight,
          calls, groupPosition, groupForward, door,
          urlParams, xf, fitTimers, fitObs, placeArgs,
          mask, released, xr, geometry,
          last, scenarioPos, sweep>>

ViewerIds == 1..(MaxCalls + 1)

\* A splat mesh as the loader hands it over, with the three.js defaults:
\* frustumCulled true, renderOrder 0, and on its material stencilWrite false,
\* AlwaysStencilFunc, ref 0, all three ops KeepStencilOp.
DefaultMesh ==
    [frustumCulled |-> TRUE, renderOrder |-> 0,
     stencilWrite |-> FALSE, stencilFunc |-> "Always", stencilRef |-> 0,
     stencilFail |-> "Keep", stencilZFail |-> "Keep", stencilZPass |-> "Keep"]

\* Scales and positions are triples of rationals.
R3(x, y, z) == [x |-> x, y |-> y, z |-> z]
Scalar(c) == R3(c, c, c)

\* A container as createFreshViewer leaves it, holding an untouched mesh.
FreshTransform ==
    [viewerScale |-> Scalar(RInt(1)),
     viewerPos |-> R3(RInt(0), RInt(0), RInt(viewerBehindDoorZ)),
     rootScale |-> Scalar(RInt(1)),
     rootPos |-> R3(RInt(0), RInt(0), RInt(0))]

NoFit == [v |-> 0, b |-> ScenarioBounds, before |-> FreshTransform]

\* No frame asset yet: frame, mixer and storedAction are null.
NoDoor == [frame |-> "none", anim |-> "none", time |-> 0,
           renderOrder |-> 0, z |-> 0, frames |-> {}]

NoSweep == [active |-> FALSE, trans |-> 0, transAt |-> {}, firstBelow |-> {}]

Last(op, has, z, url) ==
    [op |-> op, has |-> has, z |-> z, url |-> url,
     wasInside |-> isInside, wasLoading |-> isLoading,
     wasMesh |-> splatMesh, wasVisible |-> groupVisible]

\* -------------------------------------------------------- portal opening
\* safeScale of getPortalOpeningWidth / Height / OffsetX.
SafeScale(params) ==
    LET raw == params.openingScale
        scale == IF raw.k = "absent" THEN portalOpeningScaleDefault ELSE raw.v
    IN IF raw.k = "absent" \/ IsFinite(raw)
       THEN Clamp(scale, Rat(1, 10), RInt(1))
       ELSE RInt(1)

GetPortalOpeningWidth(params) == RMul(RInt(portalOpeningWidth), SafeScale(params))

GetPortalOpeningHeight(params) == RMul(RInt(portalOpeningHeight), SafeScale(params))

GetPortalOpeningOffsetX(params) ==
    IF portalAnchor # "bottomLeft" THEN RInt(0)
    ELSE LET scaledWidth == RMul(RInt(portalOpeningWidth), SafeScale(params))
             baseAnchorOffsetX ==
                 RNeg(RDiv(RSub(RInt(portalOpeningWidth), scaledWidth), RInt(2)))
             raw == params.openingOffsetX
             override == IF raw.k = "absent"
                         THEN RInt(portalOpeningOffsetXDefault) ELSE raw.v
             safeOverride == IF raw.k = "absent" \/ IsFinite(raw)
                             THEN Clamp(override, RInt(-20), RInt(20))
                             ELSE RInt(0)
         IN RAdd(baseAnchorOffsetX, safeOverride)

\* Variant of the mask material that writes colour.
MaskMaterial_ColorWrite ==
    [colorWrite |-> TRUE, depthWrite |-> FALSE, depthTest |-> FALSE,
     stencilWrite |-> TRUE, stencilRef |-> 1, stencilFunc |-> "Always",
     stencilFail |-> "Keep", stencilZFail |-> "Keep", stencilZPass |-> "Replace"]

\* maskMat: MeshBasicMaterial of the opening; stencilFail and stencilZFail
\* keep the material's defaults.
MaskMaterial ==
    [colorWrite |-> FALSE, depthWrite |-> FALSE, depthTest |-> FALSE,
     stencilWrite |-> TRUE, stencilRef |-> 1, stencilFunc |-> "Always",
     stencilFail |-> "Keep", stencilZFail |-> "Keep", stencilZPass |-> "Replace"]

\* this.mask: a plane of the opening's size, bottom edge at y = 0, shifted
\* by the opening's x offset, drawn first.
MaskMesh(params) ==
    [material |-> MaskMaterial,
     renderOrder |-> 0,
     width |-> GetPortalOpeningWidth(params),
     height |-> GetPortalOpeningHeight(params),
     centerX |-> GetPortalOpeningOffsetX(params),
     centerY |-> RDiv(GetPortalOpeningHeight(params), RInt(2))]

\* XRManager before any XR session.
NoSession ==
    [session |-> FALSE,          \* an immersive session is presenting
     listener |-> FALSE,         \* render's 'end' listener is on the session
     hitTestSourceRequested |-> FALSE,
     hitTestSource |-> "none",   \* "none" = null, "live", or "stale"
     pending |-> {},             \* hit-test source requests not yet settled
     hasPlaced |-> FALSE,
     reticleVisible |-> FALSE,
     places |-> 0,               \* observer: calls of place made so far
     sessions |-> 0,             \* observer: sessions started so far
     poseAvailable |-> FALSE,    \* observer: the last frame had a hit pose
     wasPlaced |-> FALSE]        \* observer: hasPlaced before the last event

\* ------------------------------------------------------------- constructor
\* The state after construction in a page whose query string is params;
\* geom is the content the loader will deliver into each container.
Constructed(params, geom) ==
    /\ urlParams = params
    /\ geometry = geom
    /\ xf = [v \in ViewerIds |-> FreshTransform]
    /\ fitTimers = [v \in ViewerIds |-> {}]
    /\ fitObs = NoFit
    /\ placeArgs = NoPlace
    /\ mask = MaskMesh(params)
    /\ released = {}
    /\ xr = NoSession
    /\ groupVisible = FALSE
    /\ viewer = 1
    /\ attached = {1}
    /\ splatMesh = 0
    /\ isLoading = FALSE
    /\ isInside = FALSE
    /\ lastCameraLocalZ = {}
    /\ lastStencilEnabled = TRUE
    /\ meshAttr = [v \in ViewerIds |-> DefaultMesh]
    /\ inflight = {}
    /\ calls = <<>>
    /\ groupPosition = Vec(0, 0, 0)
    /\ groupForward = Vec(0, 0, 1)
    /\ door = NoDoor
    /\ last = [op |-> "init", has |-> FALSE, z |-> 0, url |-> "",
               wasInside |-> FALSE, wasLoading |-> FALSE, wasMesh |-> 0,
               wasVisible |-> FALSE]
    /\ scenarioPos = 0
    /\ sweep = NoSweep

\* Every container receives the content of the scenario.
InitWith(params) == Constructed(params, [v \in ViewerIds |-> ScenarioBounds])

Init == InitWith(DefaultParams)

\* ----------------------------------------------------------- content fit
\* Variant that fills the larger of the two ratios.
ScaleToFit_Max(w, h, sx, sy) ==
    RMul(RMax(RDiv(w, sx), RDiv(h, sy)), portalFitPadding)

\* Variant without the padding factor.
ScaleToFit_NoPadding(w, h, sx, sy) == RMin(RDiv(w, sx), RDiv(h, sy))

\* scaleToFit = Math.min(openingWidth / size.x, openingHeight / size.y) * padding
ScaleToFit(w, h, sx, sy) ==
    RMul(RMin(RDiv(w, sx), RDiv(h, sy)), portalFitPadding)

\* Variant that applies the computed scale as it is.
ClampedScale_Unclamped(s) == s

\* clampedScale = THREE.MathUtils.clamp(scaleToFit, 0.01, 50)
ClampedScale(s) == Clamp(s, Rat(1, 100), RInt(50))

\* fitSplatToPortal(viewer, splatRoot): t is the transform of the container
\* and of its mesh before the call, b what the bounds measure after the
\* reset; the result is their transform after the call.
FitSplatToPortal(params, t, b) ==
    LET reset == [t EXCEPT !.viewerScale = Scalar(RInt(1)),
                           !.viewerPos = R3(RInt(0), RInt(0), RInt(viewerBehindDoorZ)),
                           !.rootScale = Scalar(RInt(1)),
                           !.rootPos = R3(RInt(0), RInt(0), RInt(0))]
    IN
    IF ~IsFinite(b.sizeX) \/ ~IsFinite(b.sizeY) \/ LeZero(b.sizeX) \/ LeZero(b.sizeY)
    THEN reset
    ELSE
      LET openingWidth == GetPortalOpeningWidth(params)
          openingHeight == GetPortalOpeningHeight(params)
          scaleToFit == ScaleToFit(openingWidth, openingHeight, b.sizeX.v, b.sizeY.v)
      IN
      IF scaleToFit.n <= 0 THEN reset
      ELSE
        LET clampedScale == ClampedScale(scaleToFit)
            posY == RNeg(RMul(b.minY, clampedScale))
            openingLeftX == RSub(GetPortalOpeningOffsetX(params),
                                 RDiv(openingWidth, RInt(2)))
            centerX == RAdd(b.minX, RDiv(b.sizeX.v, RInt(2)))
            posX == IF portalAnchor = "bottomLeft"
                    THEN RSub(openingLeftX, RMul(b.minX, clampedScale))
                    ELSE RNeg(RMul(centerX, clampedScale))
        IN [reset EXCEPT !.rootScale = Scalar(clampedScale),
                         !.rootPos = R3(posX, posY, RInt(0))]

\* Variant that fits once and schedules nothing.
ApplyDeferredFit_Once(v, b) ==
    /\ xf' = [xf EXCEPT ![v] = FitSplatToPortal(urlParams, @, b)]
    /\ fitTimers' = fitTimers
    /\ fitObs' = [v |-> v, b |-> b, before |-> xf[v]]

\* applyDeferredFit(viewer, splatMesh) for container v: the fit now, one
\* more on the next animation frame and one after 200 ms.
ApplyDeferredFit(v, b) ==
    /\ xf' = [xf EXCEPT ![v] = FitSplatToPortal(urlParams, @, b)]
    /\ fitTimers' = [fitTimers EXCEPT ![v] = {"raf", "timeout"}]
    /\ fitObs' = [v |-> v, b |-> b, before |-> xf[v]]

\* Variant whose callbacks fit whatever container is current when they run.
RunDeferredFit_Current(v, kind, b, fitted) ==
    /\ kind \in fitTimers[v]
    /\ fitTimers' = [fitTimers EXCEPT ![v] = @ \ {kind}]
    /\ xf' = [xf EXCEPT ![viewer] = fitted]
    /\ fitObs' = [v |-> v, b |-> b, before |-> xf[v]]
    /\ last' = Last("fit", FALSE, 0, kind)
    /\ UNCHANGED <<groupVisible, attached, viewer, splatMesh, isLoading,
                   isInside, lastCameraLocalZ, lastStencilEnabled, meshAttr,
                   inflight, calls, groupPosition, groupForward, placeArgs, door,
                   urlParams, scenarioPos, sweep>>
    /\ UNCHANGED hostVars

\* The body of an applyDeferredFit callback of container v; fitted is the
\* transform fitSplatToPortal leaves.
RunDeferredFit(v, kind, b, fitted) ==
    /\ kind \in fitTimers[v]
    /\ fitTimers' = [fitTimers EXCEPT ![v] = @ \ {kind}]
    /\ xf' = [xf EXCEPT ![v] = fitted]
    /\ fitObs' = [v |-> v, b |-> b, before |-> xf[v]]
    /\ last' = Last("fit", FALSE, 0, kind)
    /\ UNCHANGED <<groupVisible, attached, viewer, splatMesh, isLoading,
                   isInside, lastCameraLocalZ, lastStencilEnabled, meshAttr,
                   inflight, calls, groupPosition, groupForward, placeArgs, door,
                   urlParams, scenarioPos, sweep>>
    /\ UNCHANGED hostVars

\* A requestAnimationFrame or setTimeout callback of applyDeferredFit runs.
FitCallback(v, kind, b) ==
    RunDeferredFit(v, kind, b, FitSplatToPortal(urlParams, xf[v], b))

\* ---------------------------------------------------------- setSplatStencil
\* Variant whose disabling branch only clears stencilWrite.
StencilProfile_WriteOnly(enable, m) ==
    IF enable
    THEN [m EXCEPT !.stencilWrite = TRUE, !.stencilFunc = "Equal",
                   !.stencilRef = 1, !.stencilFail = "Keep",
                   !.stencilZFail = "Keep", !.stencilZPass = "Keep"]
    ELSE [m EXCEPT !.stencilWrite = FALSE]

\* The material attributes of a mesh after setSplatStencil(enable).
StencilProfile(enable, m) ==
    IF enable
    THEN [m EXCEPT !.stencilWrite = TRUE, !.stencilFunc = "Equal",
                   !.stencilRef = 1, !.stencilFail = "Keep",
                   !.stencilZFail = "Keep", !.stencilZPass = "Keep"]
    ELSE [m EXCEPT !.stencilWrite = FALSE, !.stencilFunc = "Always"]

\* setSplatStencil(enable) with this.splatMesh = mesh.
SetSplatStencil(mesh, enable) ==
    IF mesh = 0
    THEN UNCHANGED <<lastStencilEnabled, meshAttr>>
    ELSE /\ lastStencilEnabled' = enable
         /\ meshAttr' = [meshAttr EXCEPT ![mesh] = StencilProfile(enable, @)]

\* Variant of the completion handler's writes that leaves renderOrder alone.
InstallMesh_NoRenderOrder(mesh) ==
    /\ lastStencilEnabled' = TRUE
    /\ meshAttr' = [meshAttr EXCEPT ![mesh] =
                       StencilProfile(TRUE, [@ EXCEPT !.frustumCulled = FALSE])]

\* The completion handler's writes to the new mesh: frustumCulled,
\* renderOrder, then setSplatStencil(true).
InstallMesh(mesh) ==
    /\ lastStencilEnabled' = TRUE
    /\ meshAttr' = [meshAttr EXCEPT ![mesh] =
                       StencilProfile(TRUE, [@ EXCEPT !.frustumCulled = FALSE,
                                                      !.renderOrder = 1])]

\* -------------------------------------------------------------- door frame
\* Variant of the success callback that also shows the assembly.
DoorLoaded_ShowsGroup(hasAnim) ==
    /\ door.frame = "none"
    /\ door' = [frame |-> "gltf",
                anim |-> IF hasAnim THEN "stopped" ELSE "none",
                time |-> 0,
                renderOrder |-> 2,
                z |-> framePositionZ,
                frames |-> door.frames \cup {"gltf"}]
    /\ groupVisible' = TRUE
    /\ last' = Last("doorLoaded", hasAnim, 0, "")
    /\ UNCHANGED <<attached, viewer, splatMesh, isLoading,
                   isInside, lastCameraLocalZ, lastStencilEnabled, meshAttr,
                   inflight, calls, groupPosition, groupForward, placeArgs,
                   scenarioPos, sweep>>
    /\ UNCHANGED fitVars
    /\ UNCHANGED hostVars

\* GLTFLoader success callback; hasAnim tells whether gltf.animations is
\* non-empty.  The first clip is set up, reset and stopped.
DoorLoaded(hasAnim) ==
    /\ door.frame = "none"
    /\ door' = [frame |-> "gltf",
                anim |-> IF hasAnim THEN "stopped" ELSE "none",
                time |-> 0,
                renderOrder |-> 2,
                z |-> framePositionZ,
                frames |-> door.frames \cup {"gltf"}]
    /\ last' = Last("doorLoaded", hasAnim, 0, "")
    /\ UNCHANGED <<groupVisible, attached, viewer, splatMesh, isLoading,
                   isInside, lastCameraLocalZ, lastStencilEnabled, meshAttr,
                   inflight, calls, groupPosition, groupForward, placeArgs,
                   scenarioPos, sweep>>
    /\ UNCHANGED fitVars
    /\ UNCHANGED hostVars

\* Variant of the error callback that builds the placeholder and does not
\* add it to the group.
DoorFailed_NotAttached ==
    /\ door.frame = "none"
    /\ door' = [frame |-> "placeholder", anim |-> "none", time |-> 0,
                renderOrder |-> 2, z |-> 0, frames |-> door.frames]
    /\ last' = Last("doorFailed", FALSE, 0, "")
    /\ UNCHANGED <<groupVisible, attached, viewer, splatMesh, isLoading,
                   isInside, lastCameraLocalZ, lastStencilEnabled, meshAttr,
                   inflight, calls, groupPosition, groupForward, placeArgs,
                   scenarioPos, sweep>>
    /\ UNCHANGED fitVars
    /\ UNCHANGED hostVars

\* GLTFLoader error callback: the wireframe box replaces the door.
DoorFailed ==
    /\ door.frame = "none"
    /\ door' = [frame |-> "placeholder", anim |-> "none", time |-> 0,
                renderOrder |-> 2, z |-> 0,
                frames |-> door.frames \cup {"placeholder"}]
    /\ last' = Last("doorFailed", FALSE, 0, "")
    /\ UNCHANGED <<groupVisible, attached, viewer, splatMesh, isLoading,
                   isInside, lastCameraLocalZ, lastStencilEnabled, meshAttr,
                   inflight, calls, groupPosition, groupForward, placeArgs,
                   scenarioPos, sweep>>
    /\ UNCHANGED fitVars
    /\ UNCHANGED hostVars

\* playDoorAnimation: storedAction.reset(); storedAction.play().
PlayDoorAnimation(d) ==
    IF d.anim = "none" THEN d ELSE [d EXCEPT !.anim = "playing", !.time = 0]

\* mixer.update(0.016) on a LoopOnce, clampWhenFinished action.
MixerUpdate(d) ==
    IF d.anim # "playing" THEN d
    ELSE IF d.time + 1 >= AnimFrames
         THEN [d EXCEPT !.anim = "finished", !.time = AnimFrames]
         ELSE [d EXCEPT !.time = @ + 1]

\* ------------------------------------------------------------------- place
\* Variant that aims at the camera itself, without levelling the target.
LookTarget_Unlevelled(position, camPos) == camPos

\* targetPos: the camera's world position at the height of the portal.
LookTarget(position, camPos) == Vec(camPos.x, position.y, camPos.z)

\* Variant that turns the local -Z axis to the target, as a camera does.
LookAt_Away(position, target) ==
    LET d == Vec(position.x - target.x, position.y - target.y,
                 position.z - target.z)
    IN IF d = Vec(0, 0, 0) THEN Vec(0, 0, 1) ELSE d

\* Object3D.lookAt: the local +Z axis points from the group to the target
\* (kept unnormalised); target = position leaves +Z along world Z.
LookAt(position, target) ==
    LET d == Vec(target.x - position.x, target.y - position.y,
                 target.z - position.z)
    IN IF d = Vec(0, 0, 0) THEN Vec(0, 0, 1) ELSE d

\* Variant of place that leaves the crossing state alone.
Place_NoReset(position, camPos) ==
    /\ placeArgs' = [position |-> position, camPos |-> camPos]
    /\ groupPosition' = position
    /\ groupVisible' = TRUE
    /\ groupForward' = LookAt(position, LookTarget(position, camPos))
    /\ SetSplatStencil(splatMesh, TRUE)
    /\ door' = PlayDoorAnimation(door)
    /\ last' = Last("place", FALSE, 0, "")
    /\ scenarioPos' = 0
    /\ sweep' = NoSweep
    /\ UNCHANGED <<attached, viewer, splatMesh, isLoading, isInside,
                   lastCameraLocalZ, inflight, calls>>
    /\ UNCHANGED fitVars
    /\ UNCHANGED hostVars

\* Variant of place that does not touch the content's stencil state.
Place_NoStencil(position, camPos) ==
    /\ placeArgs' = [position |-> position, camPos |-> camPos]
    /\ groupPosition' = position
    /\ groupVisible' = TRUE
    /\ groupForward' = LookAt(position, LookTarget(position, camPos))
    /\ isInside' = FALSE
    /\ door' = PlayDoorAnimation(door)
    /\ last' = Last("place", FALSE, 0, "")
    /\ scenarioPos' = 0
    /\ sweep' = NoSweep
    /\ UNCHANGED <<attached, viewer, splatMesh, isLoading, lastCameraLocalZ,
                   lastStencilEnabled, meshAttr, inflight, calls>>
    /\ UNCHANGED fitVars
    /\ UNCHANGED hostVars

\* place(position, camera); camPos is the camera's world position.
PlaceBody(position, camPos) ==
    /\ placeArgs' = [position |-> position, camPos |-> camPos]
    /\ groupPosition' = position
    /\ groupVisible' = TRUE
    /\ groupForward' = LookAt(position, LookTarget(position, camPos))
    /\ isInside' = FALSE
    /\ SetSplatStencil(splatMesh, TRUE)
    /\ door' = PlayDoorAnimation(door)
    /\ last' = Last("place", FALSE, 0, "")
    /\ scenarioPos' = 0
    /\ sweep' = NoSweep
    /\ UNCHANGED <<attached, viewer, splatMesh, isLoading, lastCameraLocalZ,
                   inflight, calls>>
    /\ UNCHANGED fitVars

Place(position, camPos) == PlaceBody(position, camPos) /\ UNCHANGED hostVars

\* ------------------------------------------------------------------ update
\* Variants of the inside test: threshold included, threshold 20 cm too deep,
\* and the outside threshold used in place of the inside one.
IsBehind_Inclusive(z) == z <= insideThresholdZ

IsBehind_Late(z) == z < insideThresholdZ - 20

IsBehind_WrongThreshold(z) == z < outsideThresholdZ

\* cameraLocal.z < this.insideThresholdZ
IsBehind(z) == z < insideThresholdZ

\* Variants of the outside test: threshold included, and a single threshold
\* at the portal plane (no dead zone).
IsInFront_Inclusive(z) == z >= outsideThresholdZ

IsInFront_NoDeadZone(z) == z > 0

\* cameraLocal.z > this.outsideThresholdZ
IsInFront(z) == z > outsideThresholdZ

\* Observers of the update samples.  scenarioPos counts how many samples of
\* ScenarioZ the latest consecutive effective updates have matched, the first
\* of them made in state Outside.  sweep follows a non-increasing run of
\* samples that began at +100 in state Outside, counting the state changes.
ObserveUpdate(effective, z) ==
    LET changed == isInside' # isInside
        prev == CHOOSE p \in lastCameraLocalZ : TRUE
    IN
    /\ scenarioPos' =
         IF ~effective THEN 0
         ELSE IF scenarioPos > 0 /\ scenarioPos < Len(ScenarioZ)
                 /\ z = ScenarioZ[scenarioPos + 1]
              THEN scenarioPos + 1
              ELSE IF z = ScenarioZ[1] /\ ~isInside THEN 1 ELSE 0
    /\ sweep' =
         IF ~effective THEN NoSweep
         ELSE IF sweep.active /\ z <= prev
              THEN [active |-> TRUE,
                    trans |-> IF changed /\ sweep.trans < 2
                              THEN sweep.trans + 1 ELSE sweep.trans,
                    transAt |-> IF changed /\ sweep.transAt = {}
                                THEN {z} ELSE sweep.transAt,
                    firstBelow |-> IF sweep.firstBelow = {} /\ z < insideThresholdZ
                                   THEN {z} ELSE sweep.firstBelow]
              ELSE IF z = 100 /\ ~isInside
                   THEN [active |-> TRUE,
                         trans |-> IF changed THEN 1 ELSE 0,
                         transAt |-> IF changed THEN {z} ELSE {},
                         firstBelow |-> {}]
                   ELSE NoSweep

\* Variant of update without the early return for a hidden portal or
\* missing content.
Update_NoContentGuard(cam) ==
    LET z == cam.z
        effective == groupVisible /\ splatMesh # 0 /\ cam.has
    IN
    /\ door' = MixerUpdate(door)
    /\ IF ~cam.has
       THEN UNCHANGED <<isInside, lastCameraLocalZ, lastStencilEnabled, meshAttr>>
       ELSE /\ lastCameraLocalZ' = {z}
            /\ IF IsBehind(z)
               THEN IF ~isInside
                    THEN /\ isInside' = TRUE
                         /\ SetSplatStencil(splatMesh, FALSE)
                    ELSE UNCHANGED <<isInside, lastStencilEnabled, meshAttr>>
               ELSE IF IsInFront(z)
               THEN IF isInside
                    THEN /\ isInside' = FALSE
                         /\ SetSplatStencil(splatMesh, TRUE)
                    ELSE UNCHANGED <<isInside, lastStencilEnabled, meshAttr>>
               ELSE UNCHANGED <<isInside, lastStencilEnabled, meshAttr>>
    /\ last' = Last("update", cam.has, z, "")
    /\ ObserveUpdate(effective, z)
    /\ UNCHANGED <<groupVisible, attached, viewer, splatMesh, isLoading,
                   inflight, calls, groupPosition, groupForward, placeArgs>>
    /\ UNCHANGED fitVars
    /\ UNCHANGED hostVars

\* What update(camera) does to the portal.
UpdateCore(cam) ==
    LET z == cam.z
        effective == groupVisible /\ splatMesh # 0 /\ cam.has
    IN
    /\ door' = MixerUpdate(door)
    /\ IF ~groupVisible \/ splatMesh = 0
       THEN UNCHANGED <<isInside, lastCameraLocalZ, lastStencilEnabled, meshAttr>>
       ELSE IF ~cam.has
       THEN UNCHANGED <<isInside, lastCameraLocalZ, lastStencilEnabled, meshAttr>>
       ELSE /\ lastCameraLocalZ' = {z}
            /\ IF IsBehind(z)
               THEN IF ~isInside
                    THEN /\ isInside' = TRUE
                         /\ SetSplatStencil(splatMesh, FALSE)
                    ELSE UNCHANGED <<isInside, lastStencilEnabled, meshAttr>>
               ELSE IF IsInFront(z)
               THEN IF isInside
                    THEN /\ isInside' = FALSE
                         /\ SetSplatStencil(splatMesh, TRUE)
                    ELSE UNCHANGED <<isInside, lastStencilEnabled, meshAttr>>
               ELSE UNCHANGED <<isInside, lastStencilEnabled, meshAttr>>
    /\ ObserveUpdate(effective, z)
    /\ UNCHANGED <<groupVisible, attached, viewer, splatMesh, isLoading,
                   inflight, calls, groupPosition, groupForward, placeArgs>>
    /\ UNCHANGED fitVars

\* update(camera)
Update(cam) ==
    /\ UpdateCore(cam)
    /\ last' = Last("update", cam.has, cam.z, "")
    /\ UNCHANGED hostVars

\* ---------------------------------------------------------------- debug
\* debugDump(): reads the state and measures the content's bounds.
DebugDump ==
    /\ last' = Last("debugDump", FALSE, 0, "")
    /\ UNCHANGED <<groupVisible, attached, viewer, splatMesh, isLoading,
                   isInside, lastCameraLocalZ, lastStencilEnabled, meshAttr,
                   inflight, calls, groupPosition, groupForward, placeArgs,
                   door, scenarioPos, sweep>>
    /\ UNCHANGED fitVars
    /\ UNCHANGED hostVars

\* window.__portalDebug.dump(): portalSystem.update(xrCamera), then
\* portalSystem.debugDump().
PortalDebugDump(cam) ==
    /\ UpdateCore(cam)
    /\ last' = Last("dump", cam.has, cam.z, "")
    /\ UNCHANGED hostVars

\* -------------------------------------------------------- createFreshViewer
\* Variant that attaches the new container without removing the old one.
CreateFreshViewer_NoRemove ==
    /\ viewer' = viewer + 1
    /\ attached' = attached \cup {viewer + 1}
    /\ released' = released

\* group.remove(old viewer); new DropInViewer; group.add: the old container
\* is detached and nothing of it is disposed of.
CreateFreshViewer ==
    /\ viewer' = viewer + 1
    /\ attached' = (attached \ {viewer}) \cup {viewer + 1}
    /\ released' = released

\* --------------------------------------------------------------- loadSplat
\* Variant without the isLoading guard: every call starts a load.
LoadSplat_NoGuard(url) ==
    /\ Len(calls) < MaxCalls
    /\ isLoading' = TRUE
    /\ CreateFreshViewer
    /\ inflight' = inflight \cup {viewer'}
    /\ calls' = Append(calls, [url |-> url, viewer |-> viewer',
                                status |-> "pending", error |-> ""])
    /\ last' = Last("loadSplat", FALSE, 0, url)
    /\ scenarioPos' = 0
    /\ sweep' = NoSweep
    /\ UNCHANGED <<groupVisible, splatMesh, isInside, lastCameraLocalZ,
                   lastStencilEnabled, meshAttr, groupPosition, groupForward, placeArgs,
                   door>>
    /\ UNCHANGED fitVars
    /\ UNCHANGED <<mask, xr, geometry>>

\* Variant that recreates the container before it tests the guard.
LoadSplat_RecreateFirst(url) ==
    /\ Len(calls) < MaxCalls
    /\ CreateFreshViewer
    /\ IF isLoading
       THEN /\ calls' = Append(calls, [url |-> url, viewer |-> 0,
                                         status |-> "resolved", error |-> ""])
            /\ UNCHANGED <<isLoading, inflight>>
       ELSE /\ isLoading' = TRUE
            /\ inflight' = inflight \cup {viewer'}
            /\ calls' = Append(calls, [url |-> url, viewer |-> viewer',
                                        status |-> "pending", error |-> ""])
    /\ last' = Last("loadSplat", FALSE, 0, url)
    /\ scenarioPos' = 0
    /\ sweep' = NoSweep
    /\ UNCHANGED <<groupVisible, splatMesh, isInside, lastCameraLocalZ,
                   lastStencilEnabled, meshAttr, groupPosition, groupForward, placeArgs,
                   door>>
    /\ UNCHANGED fitVars
    /\ UNCHANGED <<mask, xr, geometry>>

LoadSplat(url) ==
    /\ Len(calls) < MaxCalls
    /\ IF isLoading
       THEN /\ calls' = Append(calls, [url |-> url, viewer |-> 0,
                                         status |-> "resolved", error |-> ""])
            /\ UNCHANGED <<viewer, attached, isLoading, inflight, released>>
       ELSE /\ isLoading' = TRUE
            /\ CreateFreshViewer
            /\ inflight' = inflight \cup {viewer'}
            /\ calls' = Append(calls, [url |-> url, viewer |-> viewer',
                                        status |-> "pending", error |-> ""])
    /\ last' = Last("loadSplat", FALSE, 0, url)
    /\ scenarioPos' = 0
    /\ sweep' = NoSweep
    /\ UNCHANGED <<groupVisible, splatMesh, isInside, lastCameraLocalZ,
                   lastStencilEnabled, meshAttr, groupPosition, groupForward, placeArgs,
                   door>>
    /\ UNCHANGED fitVars
    /\ UNCHANGED <<mask, xr, geometry>>

\* The promise of the call that started the load on container v settles;
\* error is the rejection reason ("" when it resolves).
Settle(v, status, error) ==
    [i \in DOMAIN calls |->
        IF calls[i].viewer = v
        THEN [calls[i] EXCEPT !.status = status, !.error = error]
        ELSE calls[i]]

\* .then handler: addSplatScene on container v resolved; hasMesh tells
\* whether viewer.splatMesh is an object, b what its bounds measure.
LoadDone(v, hasMesh, b) ==
    /\ v \in inflight
    /\ inflight' = inflight \ {v}
    /\ isLoading' = FALSE
    /\ splatMesh' = IF hasMesh THEN v ELSE 0
    /\ IF hasMesh
       THEN /\ isInside' = FALSE
            /\ InstallMesh(v)
            /\ ApplyDeferredFit(v, b)
       ELSE UNCHANGED <<isInside, lastStencilEnabled, meshAttr,
                        xf, fitTimers, fitObs>>
    /\ calls' = Settle(v, "resolved", "")
    /\ last' = Last("loadDone", hasMesh, 0, "")
    /\ scenarioPos' = 0
    /\ sweep' = NoSweep
    /\ UNCHANGED <<groupVisible, attached, viewer, lastCameraLocalZ,
                   groupPosition, groupForward, placeArgs, door, urlParams>>
    /\ UNCHANGED hostVars

\* Variant of the .catch handler that logs the error and does not rethrow:
\* the returned promise resolves.
LoadFail_Swallow(v, err) ==
    /\ v \in inflight
    /\ inflight' = inflight \ {v}
    /\ isLoading' = FALSE
    /\ calls' = Settle(v, "resolved", "")
    /\ last' = Last("loadFail", FALSE, 0, err)
    /\ scenarioPos' = 0
    /\ sweep' = NoSweep
    /\ UNCHANGED <<groupVisible, attached, viewer, splatMesh, isInside,
                   lastCameraLocalZ, lastStencilEnabled, meshAttr,
                   groupPosition, groupForward, placeArgs, door>>
    /\ UNCHANGED fitVars
    /\ UNCHANGED hostVars

\* Variant of the .catch handler that rethrows without clearing the flag.
LoadFail_KeepFlag(v, err) ==
    /\ v \in inflight
    /\ inflight' = inflight \ {v}
    /\ calls' = Settle(v, "rejected", err)
    /\ last' = Last("loadFail", FALSE, 0, err)
    /\ scenarioPos' = 0
    /\ sweep' = NoSweep
    /\ UNCHANGED <<groupVisible, attached, viewer, splatMesh, isLoading,
                   isInside, lastCameraLocalZ, lastStencilEnabled, meshAttr,
                   groupPosition, groupForward, placeArgs, door>>
    /\ UNCHANGED fitVars
    /\ UNCHANGED hostVars

\* .catch handler: addSplatScene on container v rejected with err; the flag
\* is cleared and err is rethrown, so the returned promise rejects with it.
LoadFail(v, err) ==
    /\ v \in inflight
    /\ inflight' = inflight \ {v}
    /\ isLoading' = FALSE
    /\ calls' = Settle(v, "rejected", err)
    /\ last' = Last("loadFail", FALSE, 0, err)
    /\ scenarioPos' = 0
    /\ sweep' = NoSweep
    /\ UNCHANGED <<groupVisible, attached, viewer, splatMesh, isInside,
                   lastCameraLocalZ, lastStencilEnabled, meshAttr,
                   groupPosition, groupForward, placeArgs, door>>
    /\ UNCHANGED fitVars
    /\ UNCHANGED hostVars

\* ------------------------------------------------------------ specification
Next ==
    \/ \E position \in GroundPositions, camPos \in CameraPositions :
          Place(position, camPos)
    \/ \E cam \in Cameras : Update(cam)
    \/ \E url \in Urls : LoadSplat(url)
    \/ \E v \in ViewerIds, hasMesh \in BOOLEAN, b \in MainBounds :
          LoadDone(v, hasMesh, b)
    \/ \E v \in ViewerIds, err \in Errors : LoadFail(v, err)

Spec == Init /\ [][Next]_vars

TypeOK ==
    /\ groupVisible \in BOOLEAN /\ isLoading \in BOOLEAN /\ isInside \in BOOLEAN
    /\ viewer \in ViewerIds /\ attached \subseteq ViewerIds
    /\ splatMesh \in {0} \cup ViewerIds
    /\ lastCameraLocalZ \subseteq Samples
    /\ inflight \subseteq ViewerIds
    /\ scenarioPos \in 0..Len(ScenarioZ)

\* ================================================================== claims
\* The last operation was an update that reached the threshold tests:
\* the portal was placed, content was loaded and a camera was present.
EffectiveUpdate ==
    last.op = "update" /\ last.has /\ last.wasVisible /\ last.wasMesh # 0

InDeadZone(z) == z >= insideThresholdZ /\ z <= outsideThresholdZ

\* C1: with content loaded and the portal placed, an update whose sample lies
\* between the two thresholds (the thresholds included) leaves the crossing
\* state as it was, whether that was Outside or Inside.
C1_DeadZoneKeepsState ==
    (EffectiveUpdate /\ InDeadZone(last.z)) => isInside = last.wasInside

C1_Witness ==
    EffectiveUpdate /\ last.z = 5 /\ last.wasInside /\ isInside

\* C2: with content loaded and the portal placed, an update moves the state
\* from Outside to Inside exactly when it started Outside and the sample is
\* strictly below insideThresholdZ.
C2_EnterIffBelowInside ==
    EffectiveUpdate =>
        ((~last.wasInside /\ isInside)
            <=> (~last.wasInside /\ last.z < insideThresholdZ))

C2_Witness ==
    EffectiveUpdate /\ last.z = insideThresholdZ - 1 /\ ~last.wasInside /\ isInside

\* C3: with content loaded and the portal placed, an update moves the state
\* from Inside to Outside exactly when it started Inside and the sample is
\* strictly above outsideThresholdZ.
C3_LeaveIffAboveOutside ==
    EffectiveUpdate =>
        ((last.wasInside /\ ~isInside)
            <=> (last.wasInside /\ last.z > outsideThresholdZ))

C3_Witness ==
    EffectiveUpdate /\ last.z = outsideThresholdZ + 1 /\ last.wasInside /\ ~isInside

\* C4: during a non-increasing sweep of samples that starts at +100 in state
\* Outside, the state changes exactly once, at the first sample below
\* insideThresholdZ, and is Inside from then on.
C4_MonotoneSweepOneTransition ==
    sweep.active =>
        /\ sweep.trans = (IF sweep.firstBelow = {} THEN 0 ELSE 1)
        /\ sweep.transAt = sweep.firstBelow
        /\ isInside = (sweep.firstBelow # {})

C4_Witness ==
    /\ sweep.active /\ sweep.firstBelow = {-13} /\ sweep.transAt = {-13}
    /\ lastCameraLocalZ = {-100} /\ isInside

\* C5: starting Outside, the samples 0.5, 0.3, 0.15, 0.05, -0.05, -0.15, -0.3
\* give the states Outside five times, then Inside twice.
C5_ScenarioStates ==
    scenarioPos > 0 => isInside = ScenarioInside[scenarioPos]

C5_Witness ==
    scenarioPos = Len(ScenarioZ) /\ isInside

\* C6: right after place the crossing state is Outside, whatever it was and
\* whether or not content is loaded.
C6_PlaceResetsOutside ==
    last.op = "place" => ~isInside

C6_Witness ==
    last.op = "place" /\ last.wasInside /\ ~isInside

\* C7: at most one load is in flight; the load in flight is the one of the
\* current, attached container, and the mesh installed by a completion is the
\* one of that container.
C7_OneLoadInFlight ==
    /\ Cardinality(inflight) <= 1
    /\ Cardinality({i \in DOMAIN calls : calls[i].status = "pending"}) <= 1
    /\ \A v \in inflight : v = viewer /\ v \in attached /\ isLoading
    /\ (last.op = "loadDone" /\ last.has) =>
           (splatMesh = viewer /\ splatMesh \in attached)

\* A completion installs the mesh of the call that was followed by an
\* ignored call.
C7_Witness ==
    /\ last.op = "loadDone" /\ last.has
    /\ \E i \in DOMAIN calls :
          /\ i + 1 \in DOMAIN calls
          /\ calls[i].viewer = splatMesh
          /\ calls[i + 1].viewer = 0

\* C8: a loadSplat call made while a load is in flight changes no portal
\* state and returns a promise that is already resolved.
C8_BusyCallIsNoOp ==
    [][(last'.op = "loadSplat" /\ isLoading) =>
          /\ UNCHANGED progVars
          /\ Len(calls') = Len(calls) + 1
          /\ calls'[Len(calls')].status = "resolved"
          /\ \A i \in DOMAIN calls : calls'[i] = calls[i]]_vars

C8_Witness ==
    /\ last.op = "loadSplat" /\ last.wasLoading /\ isLoading
    /\ calls[Len(calls)].status = "resolved"
    /\ last.wasMesh # 0

\* Started loads that resolved.
Succeeded == {i \in DOMAIN calls : calls[i].viewer # 0 /\ calls[i].status = "resolved"}

\* C9: at most one content container is attached; once loads have succeeded
\* exactly one is attached, the current one, and no earlier one is.
C9_OneContainerAttached ==
    /\ Cardinality(attached) <= 1
    /\ Succeeded # {} =>
          /\ attached = {viewer}
          /\ \A i \in DOMAIN calls :
                (calls[i].viewer # 0 /\ calls[i].viewer # viewer)
                    => calls[i].viewer \notin attached

C9_Witness ==
    Cardinality(Succeeded) >= 2 /\ ~isLoading /\ attached = {viewer}

\* C10 (as claimed): after a failed load the content loaded before the call
\* is still the current content and still attached to the assembly.
C10_PreviousContentStaysAttached ==
    (last.op = "loadFail" /\ last.wasMesh # 0) =>
        (splatMesh = last.wasMesh /\ splatMesh \in attached)

\* C11: when the loader rejects a started load with an error, the promise
\* returned by the loadSplat call that started it rejects with that error.
C11_FailureReachesCaller ==
    last.op = "loadFail" =>
        \E i \in DOMAIN calls :
            /\ calls[i].viewer # 0
            /\ calls[i].viewer = viewer
            /\ calls[i].status = "rejected"
            /\ calls[i].error = last.url

C11_Witness ==
    /\ last.op = "loadFail" /\ last.url = "e2"
    /\ calls[Len(calls)].status = "rejected" /\ calls[Len(calls)].error = "e2"

\* The loader settles every load it was given.
LoaderSettles ==
    \/ \E v \in ViewerIds, hasMesh \in BOOLEAN, b \in MainBounds :
          LoadDone(v, hasMesh, b)
    \/ \E v \in ViewerIds, err \in Errors : LoadFail(v, err)

\* Cameras of the fair specification: none, one behind and one in front of
\* the opening.
FairCameras == {c \in Cameras : c.z \in {0, -30, 30}}

\* The portal with loads that settle: the loader resolves or rejects every
\* addSplatScene promise, while placements and frames go on.
FairNext ==
    \/ \E position \in GroundPositions, camPos \in CameraPositions :
          Place(position, camPos)
    \/ \E cam \in FairCameras : Update(cam)
    \/ \E url \in Urls : LoadSplat(url)
    \/ LoaderSettles

FairSpec == Init /\ [][FairNext]_vars /\ WF_vars(LoaderSettles)

\* C12: isLoading is true exactly while a started load has not settled; a
\* loadSplat call made when none is pending starts a load; and, the loader
\* settling every load, a set flag is eventually cleared.
C12_FlagTracksLoad ==
    /\ [](isLoading <=> inflight # {})
    /\ []((last.op = "loadSplat" /\ ~last.wasLoading) =>
            (calls[Len(calls)].status = "pending" /\ inflight = {viewer}))
    /\ (isLoading ~> ~isLoading)

\* A call made after an earlier load failed starts a new load.
C12_Witness ==
    /\ last.op = "loadSplat" /\ ~last.wasLoading /\ isLoading
    /\ Len(calls) >= 2
    /\ calls[Len(calls) - 1].status = "rejected"
    /\ calls[Len(calls)].status = "pending"

\* --------------------------------------------------- the fit specification
\* The page is opened with one of the query strings; content is loaded and
\* every fit (the immediate one and the two deferred ones) measures one of
\* FitBounds.
FitInit == \E q \in FitParams : InitWith(q)

FitNext ==
    \/ \E url \in Urls : Len(calls) < MaxFitLoads /\ LoadSplat(url)
    \/ \E v \in ViewerIds, b \in FitBounds : LoadDone(v, TRUE, b)
    \/ \E v \in ViewerIds, kind \in {"raf", "timeout"}, b \in FitBounds :
          FitCallback(v, kind, b)

SpecFit == FitInit /\ [][FitNext]_vars

\* Some fit has run; fitObs.b is what it measured, xf[fitObs.v] its result.
Fitted == fitObs.v # 0

Degenerate(b) ==
    \/ ~IsFinite(b.sizeX) \/ ~IsFinite(b.sizeY)
    \/ LeZero(b.sizeX) \/ LeZero(b.sizeY)

\* C13 (as stated): a fit that measures a size that is zero, negative or
\* not finite in X or Y leaves the scale and position of the content and of
\* its container exactly as they were before the call.
C13_DegenerateFitChangesNothing ==
    (Fitted /\ Degenerate(fitObs.b)) => xf[fitObs.v] = fitObs.before

\* C14 (as stated): for every measured size with sx > 0 and sy > 0 the
\* applied scale keeps the content within the opening, scale * sx <= width
\* and scale * sy <= height, and is the same on all axes.
C14_NeverOverflows ==
    (Fitted /\ ~Degenerate(fitObs.b)) =>
        LET sc == xf[fitObs.v].rootScale
        IN /\ sc.x = sc.y /\ sc.y = sc.z
           /\ RLe(RMul(sc.x, fitObs.b.sizeX.v), GetPortalOpeningWidth(urlParams))
           /\ RLe(RMul(sc.y, fitObs.b.sizeY.v), GetPortalOpeningHeight(urlParams))

\* The effective opening: 0.68 m x 1.75 m times the opening scale, which is
\* 0.75 unless the query string gives one (clamped to [0.1, 1], 1 if NaN).
EffectiveOpeningScale ==
    LET raw == urlParams.openingScale
    IN IF raw.k = "absent" THEN Rat(3, 4)
       ELSE IF raw.k # "fin" THEN RInt(1)
       ELSE IF RLt(raw.v, Rat(1, 10)) THEN Rat(1, 10)
       ELSE IF RLt(RInt(1), raw.v) THEN RInt(1)
       ELSE raw.v

\* min(openingWidth / sizeX, openingHeight / sizeY) * 0.644 for the last fit.
PaddedRatio ==
    LET w == RMul(RInt(68), EffectiveOpeningScale)
        h == RMul(RInt(175), EffectiveOpeningScale)
    IN RMul(RMin(RDiv(w, fitObs.b.sizeX.v), RDiv(h, fitObs.b.sizeY.v)),
            Rat(644, 1000))

\* C15 (as stated): for a valid bounding volume the scale of the fit equals
\* min(openingWidth / sizeX, openingHeight / sizeY) * fitPadding.
C15_ScaleIsPaddedRatio ==
    (Fitted /\ ~Degenerate(fitObs.b)) =>
        xf[fitObs.v].rootScale = Scalar(PaddedRatio)

\* C15 (amended): for a valid bounding volume the scale of the fit equals
\* min(openingWidth / sizeX, openingHeight / sizeY) * fitPadding limited to
\* the range [0.01, 50]; with the opening at its full 0.68 m x 1.75 m and
\* bounds of 2 m x 5 m the scale is 0.34 * 0.644 = 0.21896.
C15_ScaleIsClampedPaddedRatio ==
    (Fitted /\ ~Degenerate(fitObs.b)) =>
        /\ xf[fitObs.v].rootScale =
              Scalar(IF RLt(PaddedRatio, Rat(1, 100)) THEN Rat(1, 100)
                     ELSE IF RLt(RInt(50), PaddedRatio) THEN RInt(50)
                     ELSE PaddedRatio)
        /\ (fitObs.b = ScenarioBounds /\ urlParams.openingScale = Fin(1, 1)) =>
              xf[fitObs.v].rootScale = Scalar(Rat(21896, 100000))

C15_Witness ==
    /\ Fitted
    /\ last.op = "fit"
    /\ fitObs.b = ScenarioBounds
    /\ urlParams.openingScale = Fin(1, 1)
    /\ xf[fitObs.v].rootScale = Scalar(Rat(2737, 12500))

\* C16: update called while no content is loaded, or before the portal is
\* placed, or with an array camera that holds no cameras changes neither the
\* crossing state nor the stencil mode nor any render attribute of the
\* content.
C16_IneffectiveUpdateIsNoOp ==
    [][(last'.op = "update" /\ (~groupVisible \/ splatMesh = 0 \/ ~last'.has))
         => UNCHANGED <<isInside, lastStencilEnabled, meshAttr>>]_vars

C16_Witness ==
    /\ last.op = "update" /\ ~last.has
    /\ last.wasVisible /\ last.wasMesh # 0 /\ last.wasInside
    /\ isInside /\ ~lastStencilEnabled

\* The outside (stencil-clipped) and the inside (unclipped) profile.
OutsideProfile(m) ==
    /\ m.stencilWrite = TRUE /\ m.stencilFunc = "Equal" /\ m.stencilRef = 1
    /\ m.stencilFail = "Keep" /\ m.stencilZFail = "Keep" /\ m.stencilZPass = "Keep"

InsideProfile(m) == m.stencilWrite = FALSE /\ m.stencilFunc = "Always"

\* C17: after place(groundPosition, camera) the assembly is at
\* groundPosition and visible and, when content is loaded, the content
\* carries the outside profile, whatever the state was before the call.
C17_PlaceSetsPoseAndProfile ==
    last.op = "place" =>
        /\ groupPosition = placeArgs.position
        /\ groupVisible
        /\ (splatMesh # 0 => OutsideProfile(meshAttr[splatMesh]))

C17_Witness ==
    /\ last.op = "place" /\ last.wasInside /\ last.wasMesh # 0 /\ last.wasVisible
    /\ groupPosition = Vec(10, 0, -20)
    /\ OutsideProfile(meshAttr[splatMesh])

\* ------------------------------------------------- the door specification
\* The frame asset's load completes or fails at any point among the
\* placements and the frames.
DoorNext ==
    \/ \E hasAnim \in BOOLEAN : DoorLoaded(hasAnim)
    \/ DoorFailed
    \/ \E position \in GroundPositions, camPos \in CameraPositions :
          Place(position, camPos)
    \/ \E cam \in Cameras : Update(cam)

SpecDoor == Init /\ [][DoorNext]_vars

\* C18 (as stated): for each placement the opening animation of a frame
\* asset that carries one has been started, whatever the order of place and
\* of the completion of the asset's load: once the portal is placed and the
\* asset is there, the animation is running or holds its final pose.
C18_AnimationStartedPerPlacement ==
    (groupVisible /\ door.frame = "gltf" /\ door.anim # "none")
        => door.anim \in {"playing", "finished"}

\* ------------------------------------------- the placement specification
PlaceNext ==
    \/ \E position \in PlaceGrounds, camPos \in PlaceCameras :
          Place(position, camPos)
    \/ \E cam \in Cameras : Update(cam)

SpecPlace == Init /\ [][PlaceNext]_vars

\* C19: place turns the assembly about the vertical axis only: its facing
\* axis is horizontal and points from the assembly to the camera's
\* horizontal position (ground (0,0,-2), camera (0,1.6,0): it faces +Z).
C19_YawOnlyBillboard ==
    last.op = "place" =>
        LET dx == placeArgs.camPos.x - placeArgs.position.x
            dz == placeArgs.camPos.z - placeArgs.position.z
        IN /\ groupForward.y = 0
           /\ (dx # 0 \/ dz # 0) => (groupForward.x = dx /\ groupForward.z = dz)
           /\ (dx = 0 /\ dz = 0) => groupForward = Vec(0, 0, 1)
           /\ (placeArgs.position = Vec(0, 0, -20) /\ placeArgs.camPos = Vec(0, 16, 0))
                 => groupForward = Vec(0, 0, 20)

C19_Witness ==
    /\ last.op = "place"
    /\ placeArgs = [position |-> Vec(0, 5, -20), camPos |-> Vec(-7, 12, 4)]
    /\ groupForward = Vec(-7, 0, 24)

\* C20: whenever content is loaded, its drawables carry the outside profile
\* (stencil test EQUAL against 1, all ops KEEP) if the crossing state is
\* Outside and the inside profile (stencil off, function ALWAYS) if it is
\* Inside.
C20_ProfileMatchesState ==
    splatMesh # 0 =>
        IF isInside THEN InsideProfile(meshAttr[splatMesh])
                    ELSE OutsideProfile(meshAttr[splatMesh])

C20_Witness ==
    /\ last.op = "update" /\ ~last.wasInside /\ isInside
    /\ splatMesh # 0
    /\ InsideProfile(meshAttr[splatMesh])
    /\ meshAttr[splatMesh].stencilRef = 1

\* C21: if the frame asset fails to load, the placeholder frame with render
\* order 2 is attached and there is no animation; however the load settles,
\* exactly one frame object is attached afterwards, and neither the frame
\* nor what is attached is ever replaced.
C21_OneFrameForGood ==
    /\ [](door.frame = "placeholder" =>
            /\ door.frames = {"placeholder"}
            /\ door.renderOrder = 2
            /\ door.anim = "none" /\ door.time = 0)
    /\ [](door.frame # "none" => door.frames = {door.frame})
    /\ [][door.frame # "none" =>
            (door'.frame = door.frame /\ door'.frames = door.frames)]_vars

\* The portal is placed and frames run after the asset failed to load.
C21_Witness ==
    /\ door.frame = "placeholder" /\ door.frames = {"placeholder"}
    /\ groupVisible
    /\ last.op = "update"

\* ------------------------------------------------- the full specification
\* Everything that happens to one portal: placements, frames, scene loads
\* and their deferred fits, the frame asset's load, and debug snapshots.
FullNext ==
    \/ \E position \in GroundPositions, camPos \in CameraPositions :
          Place(position, camPos)
    \/ \E cam \in FairCameras : Update(cam)
    \/ \E url \in Urls : Len(calls) < MaxFitLoads /\ LoadSplat(url)
    \/ \E v \in ViewerIds, hasMesh \in BOOLEAN, b \in MainBounds :
          LoadDone(v, hasMesh, b)
    \/ \E v \in ViewerIds, err \in Errors : LoadFail(v, err)
    \/ \E v \in ViewerIds, kind \in {"raf", "timeout"}, b \in MainBounds :
          FitCallback(v, kind, b)
    \/ \E hasAnim \in BOOLEAN : DoorLoaded(hasAnim)
    \/ DoorFailed
    \/ \E cam \in FairCameras : PortalDebugDump(cam)
    \/ DebugDump

SpecFull == Init /\ [][FullNext]_vars

\* C22 (as stated): taking the debug snapshot, through debugDump or through
\* window.__portalDebug.dump, changes neither the crossing state, the
\* stencil mode, the last local z, the door animation nor any content
\* transform.
C22_DumpIsReadOnly ==
    [][last'.op \in {"debugDump", "dump"} =>
         UNCHANGED <<isInside, lastStencilEnabled, meshAttr, lastCameraLocalZ,
                     door, xf>>]_vars

\* C23 (as stated): in every update call the content the frame reads
\* (splatMesh) belongs to the container attached to the assembly, never to
\* one that has been detached.
C23_FrameReadsAttachedContent ==
    (last.op = "update" /\ last.wasMesh # 0) => last.wasMesh \in attached

\* place has been called at least once.
Placed == placeArgs # NoPlace

\* C25: the assembly is hidden in every state before the first place call,
\* whatever content or frame load completes meanwhile, and visible in every
\* state after it.
C25_HiddenUntilPlaced == groupVisible <=> Placed

\* Content and frame are loaded and frames have run, all before placement.
C25_Witness ==
    /\ ~groupVisible /\ ~Placed
    /\ splatMesh # 0 /\ door.frame = "gltf"
    /\ last.op = "update"

\* C26 (as stated): between two updates nothing but a placement changes the
\* crossing state; in particular the completion of a content load does not.
C26_OnlyUpdateMovesCrossingState ==
    [][last'.op \notin {"update", "place"} => isInside' = isInside]_vars

\* C28: the draw order is mask < content < frame wherever the objects
\* exist: the mask has render order 0, the loaded content 1 and the frame
\* (door model or placeholder) 2.
C28_DrawOrder ==
    /\ mask.renderOrder = 0
    /\ splatMesh # 0 => meshAttr[splatMesh].renderOrder = 1
    /\ door.frame # "none" => door.renderOrder = 2

\* A scene is shown, the door model is loaded and the user is inside.
C28_Witness ==
    /\ splatMesh # 0 /\ door.frame = "gltf" /\ groupVisible /\ isInside
    /\ mask.renderOrder < meshAttr[splatMesh].renderOrder
    /\ meshAttr[splatMesh].renderOrder < door.renderOrder

\* C29: no operation changes the mask: in every state it has colour write,
\* depth write and depth test disabled and stencil ALWAYS, reference 1,
\* REPLACE on pass, and the size and place the constructor gave it.
C29_MaskIsImmutable ==
    /\ [](/\ mask.material.colorWrite = FALSE
          /\ mask.material.depthWrite = FALSE
          /\ mask.material.depthTest = FALSE
          /\ mask.material.stencilWrite = TRUE
          /\ mask.material.stencilFunc = "Always"
          /\ mask.material.stencilRef = 1
          /\ mask.material.stencilZPass = "Replace"
          /\ mask.width = Rat(51, 1) /\ mask.height = Rat(525, 4)
          /\ mask.centerX = Rat(-17, 2) /\ mask.centerY = Rat(525, 8))
    /\ [][mask' = mask]_vars

\* Placement, crossing to Inside, a load with both deferred fits done.
C29_Witness ==
    /\ groupVisible /\ isInside /\ ~lastStencilEnabled
    /\ splatMesh # 0 /\ fitTimers[splatMesh] = {}
    /\ last.op = "update"
    /\ mask.material.colorWrite = FALSE

\* C30: when a load completes and installs new content, the content it
\* replaces is detached and its resources have been released.
C30_PreviousContentReleased ==
    (last.op = "loadDone" /\ last.has /\ last.wasMesh # 0) =>
        (last.wasMesh \notin attached /\ last.wasMesh \in released)

\* --------------------------------------- the fit specification, timers fire
\* fitSplatToPortal overwrites all four components of the transform, so
\* what it leaves depends on the query string and the bounds alone.
FitOutcome ==
    [q \in FitParams, b \in FitBounds |-> FitSplatToPortal(q, FreshTransform, b)]

\* The browser runs every scheduled animation-frame and timer callback:
\* the steps of FitCallback, with the fit read from FitOutcome.
DeferredFits ==
    \E v \in ViewerIds, kind \in {"raf", "timeout"}, b \in FitBounds :
        RunDeferredFit(v, kind, b, FitOutcome[urlParams, b])

\* The page is opened without a query string.
FairSpecFit == Init /\ [][FitNext]_vars /\ WF_vars(DeferredFits)

\* C27: a successful load runs the fit inside its completion handler and
\* schedules more; the scheduled callbacks firing, the fit runs at least
\* once more for that content.
C27_FitRunsAgain ==
    /\ []((last.op = "loadDone" /\ last.has) =>
            (fitObs.v = splatMesh /\ fitTimers[splatMesh] # {}))
    /\ \A v \in ViewerIds :
          (fitTimers[v] = {"raf", "timeout"}) ~> (last.op = "fit" /\ fitObs.v = v)

\* Both deferred fits of the current content have run.
C27_Witness ==
    /\ last.op = "fit" /\ splatMesh # 0
    /\ fitObs.v = splatMesh /\ fitTimers[splatMesh] = {}

\* ------------------------------------------------------------- XRManager
\* renderer.xr.setSession(session): an immersive session starts presenting.
SessionStart ==
    /\ ~xr.session
    /\ xr.sessions < MaxSessions
    /\ xr' = [xr EXCEPT !.session = TRUE, !.listener = FALSE,
                        !.sessions = @ + 1,
                        !.poseAvailable = FALSE, !.wasPlaced = xr.hasPlaced]
    /\ last' = Last("sessionStart", FALSE, 0, "")
    /\ UNCHANGED <<groupVisible, attached, viewer, splatMesh, isLoading,
                   isInside, lastCameraLocalZ, lastStencilEnabled, meshAttr,
                   inflight, calls, groupPosition, groupForward, placeArgs,
                   door, scenarioPos, sweep, mask, released, geometry>>
    /\ UNCHANGED fitVars

\* Variant of the 'end' listener that also clears hasPlaced.
SessionEnd_ResetsPlaced ==
    /\ xr.session
    /\ xr' = [xr EXCEPT !.session = FALSE, !.listener = FALSE,
                        !.hitTestSourceRequested = IF xr.listener THEN FALSE ELSE @,
                        !.hitTestSource = IF xr.listener THEN "none" ELSE @,
                        !.hasPlaced = IF xr.listener THEN FALSE ELSE @,
                        !.poseAvailable = FALSE, !.wasPlaced = xr.hasPlaced]
    /\ last' = Last("sessionEnd", FALSE, 0, "")
    /\ UNCHANGED <<groupVisible, attached, viewer, splatMesh, isLoading,
                   isInside, lastCameraLocalZ, lastStencilEnabled, meshAttr,
                   inflight, calls, groupPosition, groupForward, placeArgs,
                   door, scenarioPos, sweep, mask, released, geometry>>
    /\ UNCHANGED fitVars

\* The session ends; the 'end' listener, if render has put it on this
\* session, clears hitTestSourceRequested and hitTestSource.
SessionEnd ==
    /\ xr.session
    /\ xr' = [xr EXCEPT !.session = FALSE, !.listener = FALSE,
                        !.hitTestSourceRequested = IF xr.listener THEN FALSE ELSE @,
                        !.hitTestSource = IF xr.listener THEN "none" ELSE @,
                        !.poseAvailable = FALSE, !.wasPlaced = xr.hasPlaced]
    /\ last' = Last("sessionEnd", FALSE, 0, "")
    /\ UNCHANGED <<groupVisible, attached, viewer, splatMesh, isLoading,
                   isInside, lastCameraLocalZ, lastStencilEnabled, meshAttr,
                   inflight, calls, groupPosition, groupForward, placeArgs,
                   door, scenarioPos, sweep, mask, released, geometry>>
    /\ UNCHANGED fitVars

\* The promise of requestHitTestSource made in session s settles: fulfilled,
\* it assigns hitTestSource, whatever session is presenting by then.
HitTestSourceSettles(s, fulfilled) ==
    /\ s \in xr.pending
    /\ xr' = [xr EXCEPT !.pending = @ \ {s},
                        !.hitTestSource =
                            IF ~fulfilled THEN @
                            ELSE IF xr.session /\ s = xr.sessions
                                 THEN "live" ELSE "stale",
                        !.poseAvailable = FALSE, !.wasPlaced = xr.hasPlaced]
    /\ last' = Last("hitTestSource", fulfilled, 0, "")
    /\ UNCHANGED <<groupVisible, attached, viewer, splatMesh, isLoading,
                   isInside, lastCameraLocalZ, lastStencilEnabled, meshAttr,
                   inflight, calls, groupPosition, groupForward, placeArgs,
                   door, scenarioPos, sweep, mask, released, geometry>>
    /\ UNCHANGED fitVars

\* onSelect: a controller select gesture places at the reticle if the
\* reticle is visible.
Select(position, camPos) ==
    /\ xr' = [xr EXCEPT !.places = IF xr.reticleVisible THEN @ + 1 ELSE @,
                        !.poseAvailable = FALSE, !.wasPlaced = xr.hasPlaced]
    /\ IF xr.reticleVisible
       THEN PlaceBody(position, camPos)
       ELSE /\ last' = Last("select", FALSE, 0, "")
            /\ UNCHANGED <<groupVisible, attached, viewer, splatMesh, isLoading,
                           isInside, lastCameraLocalZ, lastStencilEnabled,
                           meshAttr, inflight, calls, groupPosition,
                           groupForward, placeArgs, door, scenarioPos, sweep>>
            /\ UNCHANGED fitVars
    /\ UNCHANGED <<mask, released, geometry>>

\* place(position, camera) followed in the same frame by update(xrCamera):
\* update starts from the state place leaves (shown, Outside, door playing).
PlaceThenUpdate(position, camPos, cam) ==
    LET z == cam.z
        effective == splatMesh # 0 /\ cam.has
        crossed == effective /\ IsBehind(z)
    IN
    /\ placeArgs' = [position |-> position, camPos |-> camPos]
    /\ groupPosition' = position
    /\ groupVisible' = TRUE
    /\ groupForward' = LookAt(position, LookTarget(position, camPos))
    /\ door' = MixerUpdate(PlayDoorAnimation(door))
    /\ isInside' = crossed
    /\ lastCameraLocalZ' = IF effective THEN {z} ELSE lastCameraLocalZ
    /\ IF splatMesh = 0
       THEN UNCHANGED <<lastStencilEnabled, meshAttr>>
       ELSE /\ lastStencilEnabled' = ~crossed
            /\ meshAttr' = [meshAttr EXCEPT ![splatMesh] =
                               IF crossed
                               THEN StencilProfile(FALSE, StencilProfile(TRUE, @))
                               ELSE StencilProfile(TRUE, @)]
    /\ scenarioPos' = IF effective /\ z = ScenarioZ[1] THEN 1 ELSE 0
    /\ sweep' = IF effective /\ z = 100
                THEN [active |-> TRUE,
                      trans |-> IF crossed THEN 1 ELSE 0,
                      transAt |-> IF crossed THEN {z} ELSE {},
                      firstBelow |-> {}]
                ELSE NoSweep
    /\ UNCHANGED <<attached, viewer, splatMesh, isLoading, inflight, calls>>
    /\ UNCHANGED fitVars

\* What getHitTestResults and getPose can give in a frame: a pose, nothing,
\* or (for a source of an ended session) an exception that ends the frame.
HitOutcomes ==
    IF ~xr.session \/ xr.hitTestSource = "none" THEN {"none"}
    ELSE IF xr.hitTestSource = "live" THEN {"pose", "none"}
    ELSE {"none", "throws"}

\* render(timestamp, frame): one call of the animation loop.  frame is set
\* while a session is presenting.
RenderFrame(outcome, position, camPos, cam) ==
    LET request == xr.session /\ ~xr.hitTestSourceRequested
        pose == outcome = "pose"
        placing == pose /\ ~xr.hasPlaced
    IN
    /\ outcome \in HitOutcomes
    /\ xr' = [xr EXCEPT !.hitTestSourceRequested = @ \/ request,
                        !.listener = @ \/ request,
                        !.pending = IF request THEN @ \cup {xr.sessions} ELSE @,
                        !.hasPlaced = @ \/ pose,
                        !.places = IF placing THEN @ + 1 ELSE @,
                        !.poseAvailable = pose, !.wasPlaced = xr.hasPlaced]
    /\ last' = Last("render", cam.has, cam.z, outcome)
    /\ IF outcome = "throws"
       THEN /\ UNCHANGED <<groupVisible, attached, viewer, splatMesh, isLoading,
                           isInside, lastCameraLocalZ, lastStencilEnabled,
                           meshAttr, inflight, calls, groupPosition,
                           groupForward, placeArgs, door, scenarioPos, sweep>>
            /\ UNCHANGED fitVars
       ELSE IF placing
            THEN PlaceThenUpdate(position, camPos, cam)
            ELSE UpdateCore(cam)
    /\ UNCHANGED <<mask, released, geometry>>

\* The page in an AR session: sessions start and end, frames are rendered,
\* hit-test sources arrive, the user taps, and a scene is loaded.
XRNext ==
    \/ SessionStart
    \/ SessionEnd
    \/ \E s \in 1..MaxSessions, fulfilled \in BOOLEAN : HitTestSourceSettles(s, fulfilled)
    \/ \E position \in GroundPositions, camPos \in CameraPositions : Select(position, camPos)
    \/ \E outcome \in {"pose", "none", "throws"}, position \in GroundPositions,
          camPos \in CameraPositions, cam \in FairCameras :
            RenderFrame(outcome, position, camPos, cam)
    \/ \E url \in Urls : Len(calls) < MaxFitLoads /\ LoadSplat(url)
    \/ \E v \in ViewerIds, b \in MainBounds : LoadDone(v, TRUE, b)

SpecXR == Init /\ [][XRNext]_vars

\* C24: place is called at most once, by the first frame that has a hit
\* pose and by nothing else: not by later frames with a pose, not by a
\* select gesture, not after the session ended and another one started.
C24_PlacedOnce ==
    /\ xr.places <= 1
    /\ xr.hasPlaced <=> (xr.places = 1)
    /\ Placed <=> (xr.places = 1)
    /\ (last.op = "render" /\ xr.poseAvailable) =>
          /\ xr.places = 1 /\ groupVisible
          /\ ~xr.wasPlaced => ~last.wasVisible
    /\ (groupVisible # last.wasVisible) =>
          (last.op = "render" /\ xr.poseAvailable /\ ~xr.wasPlaced)

\* A frame with a hit pose in the second session, after the portal was
\* placed in the first one.
C24_Witness ==
    /\ last.op = "render" /\ xr.poseAvailable /\ xr.wasPlaced
    /\ xr.sessions = 2 /\ xr.session
    /\ xr.places = 1 /\ groupVisible

\* ------------------------------------------- the alignment specification
\* Own-space bounds of loadable content (cm): the scenario's and a wide one.
OwnContents ==
    {ScenarioBounds, Bounds(Fin(300, 1), Fin(100, 1), RInt(20), RInt(0))}

\* The content delivered into the containers, by parity of the container.
Geometries ==
    {[v \in ViewerIds |-> IF v % 2 = 0 THEN g ELSE h] :
        g \in OwnContents, h \in OwnContents}

\* new THREE.Box3().setFromObject(splatRoot): the box of the content in world
\* axes, through the world matrix of its container.  origin is the world
\* position (decimetres) that matrix carries; the group is not rotated.
Measure(own, origin) ==
    [own EXCEPT !.minX = RAdd(@, RInt(10 * origin.x)),
                !.minY = RAdd(@, RInt(10 * origin.y))]

\* The world matrix of a container is the identity it was created with
\* until a rendered frame refreshes it; place runs inside the frame callback
\* before the frame is rendered, so a refreshed matrix carries the current
\* position of the group.
WorldOrigins == {Vec(0, 0, 0), groupPosition}

\* Placements with the camera straight in front of the hit position, which
\* leave the group unrotated: on a floor at height 0, on a floor 1.5 m below
\* the origin of the reference space, and the latter 0.5 m to the side.
AlignPlacements ==
    {<<Vec(0, 0, -20), Vec(0, 16, 0)>>,
     <<Vec(0, -15, -20), Vec(0, 0, 0)>>,
     <<Vec(5, -15, -20), Vec(5, 0, 0)>>}

AlignInit == \E geom \in Geometries : Constructed(DefaultParams, geom)

\* Content with fixed own-space bounds is loaded and fitted while the
\* portal is placed.
AlignNext ==
    \/ \E p \in AlignPlacements : Place(p[1], p[2])
    \/ \E url \in Urls : Len(calls) < MaxFitLoads /\ LoadSplat(url)
    \/ \E v \in ViewerIds, origin \in WorldOrigins :
          LoadDone(v, TRUE, Measure(geometry[v], origin))
    \/ \E v \in ViewerIds, kind \in {"raf", "timeout"}, origin \in WorldOrigins :
          FitCallback(v, kind, Measure(geometry[v], origin))

SpecAlign == AlignInit /\ [][AlignNext]_vars

\* Where the fitted content of container v lies in the coordinates of the
\* opening: the least x and the least y of its scaled bounds.
ContentLeftX(v) ==
    RAdd(RAdd(xf[v].viewerPos.x, xf[v].rootPos.x),
         RMul(xf[v].rootScale.x, geometry[v].minX))

ContentBottomY(v) ==
    RAdd(RAdd(xf[v].viewerPos.y, xf[v].rootPos.y),
         RMul(xf[v].rootScale.y, geometry[v].minY))

OpeningLeftX ==
    RSub(GetPortalOpeningOffsetX(urlParams),
         RDiv(GetPortalOpeningWidth(urlParams), RInt(2)))

\* C31: after a successful fit the bottom of the scaled content is at
\* local Y = 0 and, in bottom-left alignment, its left side is at the left
\* edge of the opening.
C31_ContentAligned ==
    ((last.op = "loadDone" /\ last.has) \/ last.op = "fit") =>
        /\ ContentBottomY(fitObs.v) = RInt(0)
        /\ portalAnchor = "bottomLeft" => ContentLeftX(fitObs.v) = OpeningLeftX

\* The same for a portal that has not been placed: there the claim holds.
C31_AlignedBeforePlacement ==
    (~Placed /\ ((last.op = "loadDone" /\ last.has) \/ last.op = "fit")) =>
        /\ ContentBottomY(fitObs.v) = RInt(0)
        /\ ContentLeftX(fitObs.v) = OpeningLeftX

\* C38: a deferred fit of content whose own-space bounds have not changed
\* leaves the transform the previous fit of that content left.
C38_FitIsIdempotent ==
    (last.op = "fit") => (xf[fitObs.v] = fitObs.before)

\* C32: every scale the fit leaves on content is one number on all three
\* axes within [0.01, 50] (so never zero, negative or non-finite), and a
\* computed scale beyond the range is replaced by the nearer limit.
C32_ScaleInRange ==
    /\ \A v \in ViewerIds :
          /\ xf[v].rootScale = Scalar(xf[v].rootScale.x)
          /\ RLe(Rat(1, 100), xf[v].rootScale.x)
          /\ RLe(xf[v].rootScale.x, RInt(50))
    /\ (Fitted /\ ~Degenerate(fitObs.b)) =>
          /\ RLt(RInt(50), PaddedRatio) => xf[fitObs.v].rootScale.x = RInt(50)
          /\ RLt(PaddedRatio, Rat(1, 100)) => xf[fitObs.v].rootScale.x = Rat(1, 100)

\* A deferred fit of 5 mm content, whose computed scale exceeds 50.
C32_Witness ==
    /\ last.op = "fit" /\ ~Degenerate(fitObs.b)
    /\ RLt(RInt(50), PaddedRatio)
    /\ xf[fitObs.v].rootScale = Scalar(RInt(50))

\* ------------------------------------------------ the side specification
\* The integer square root, by Newton's iteration from above.
RECURSIVE SqrtFrom(_, _)
SqrtFrom(n, k) ==
    LET next == (k + n \div k) \div 2
    IN IF next >= k THEN k ELSE SqrtFrom(n, next)

ISqrt(n) == IF n = 0 THEN 0 ELSE SqrtFrom(n, n)

\* group.worldToLocal(cameraWorld).z in centimetres, cut to a whole number:
\* the component of camPos - position along the group's local +Z axis.
\* Positions are in decimetres and forward is horizontal and not normalised.
CameraLocalZ(position, forward, camPos) ==
    LET dot == (camPos.x - position.x) * forward.x
                 + (camPos.y - position.y) * forward.y
                 + (camPos.z - position.z) * forward.z
        len2 == forward.x * forward.x + forward.y * forward.y
                  + forward.z * forward.z
        magnitude == ISqrt((100 * dot * dot) \div len2)
    IN IF dot < 0 THEN -magnitude ELSE magnitude

\* A camera at world position camPos, as update sees it.
CameraAt(camPos) ==
    [has |-> TRUE, z |-> CameraLocalZ(groupPosition, groupForward, camPos)]

\* Hit positions of the side specification: one with the cameras in front
\* of, above and behind it, and one below and to the other side of them.
SideGrounds == {Vec(0, 0, -20), Vec(-4, -3, 12)}

\* The portal is placed and the camera moves among world positions, while
\* content is loaded and fitted.
SideNext ==
    \/ \E position \in SideGrounds, camPos \in PlaceCameras :
          Place(position, camPos)
    \/ \E camPos \in PlaceCameras : Update(CameraAt(camPos))
    \/ \E url \in Urls : Len(calls) < MaxFitLoads /\ LoadSplat(url)
    \/ \E v \in ViewerIds, b \in MainBounds : LoadDone(v, TRUE, b)
    \/ \E v \in ViewerIds, kind \in {"raf", "timeout"}, b \in MainBounds :
          FitCallback(v, kind, b)

SpecSide == Init /\ [][SideNext]_vars

\* The local z at which update sees the camera that place was given.
PlacedCameraZ == CameraLocalZ(groupPosition, groupForward, placeArgs.camPos)

\* C33: place leaves the camera on the local +Z side of the plane, the side
\* update calls Outside; every content container stays at the negative
\* local z the constructor gave it, whatever fits have run; and an update
\* that follows place with the camera where place saw it does not yield
\* Inside.
C33_OneSignConvention ==
    /\ [](/\ outsideThresholdZ > 0 /\ insideThresholdZ < 0
          /\ Placed => (PlacedCameraZ >= 0 /\ ~IsBehind(PlacedCameraZ))
          /\ \A v \in ViewerIds :
                xf[v].viewerPos.z = RInt(viewerBehindDoorZ) /\ xf[v].viewerPos.z.n < 0)
    /\ [][(last.op = "place" /\ last'.op = "update" /\ last'.z = PlacedCameraZ)
            => ~isInside']_vars

\* Content is loaded and fitted, the portal is placed turned sideways, and
\* an update sees the camera where place saw it, beyond the outer threshold.
C33_Witness ==
    /\ last.op = "update" /\ last.z = PlacedCameraZ
    /\ last.z > outsideThresholdZ /\ ~isInside
    /\ groupForward.x # 0
    /\ splatMesh # 0 /\ fitTimers[splatMesh] = {}

\* C34: the loaded door frame is offset from the plane to the side update
\* calls Outside, the side of the camera after place.
C34_FrameTowardCamera ==
    door.frame = "gltf" =>
        /\ door.z # 0
        /\ (door.z > 0) <=> (outsideThresholdZ > 0)

\* C35: the reported stencil mode is the negation of the inside flag, as
\* debugDump returns them together.
C35_StencilMirrorsInside == lastStencilEnabled = ~isInside

\* C36: the crossing state is Inside only while content is loaded and the
\* portal is placed; before the first successful load and before the first
\* placement it is Outside.
C36_InsideNeedsContentAndPlacement ==
    /\ isInside => (splatMesh # 0 /\ groupVisible)
    /\ (Succeeded = {} \/ ~Placed) => ~isInside

\* ---------------------------------------------- the reload specification
\* Scenes are switched while the deferred fits of earlier loads are still
\* pending; the portal stays at the origin, where the bounds measure the
\* content's own.
ReloadNext ==
    \/ \E url \in Urls : LoadSplat(url)
    \/ \E v \in ViewerIds : LoadDone(v, TRUE, geometry[v])
    \/ \E v \in ViewerIds, err \in Errors : LoadFail(v, err)
    \/ \E v \in ViewerIds, kind \in {"raf", "timeout"} :
          FitCallback(v, kind, geometry[v])

SpecReload == AlignInit /\ [][ReloadNext]_vars

\* C37: a deferred fit changes the transform of the container whose load
\* scheduled it and of no other, in particular of none attached later.
C37_DeferredFitKeepsToItsContent ==
    [][last'.op = "fit" =>
          \A w \in ViewerIds : (w # fitObs'.v) => (xf'[w] = xf[w])]_vars

\* A deferred fit of replaced content ran after the content of a later
\* load was installed and fitted differently.
C37_Witness ==
    /\ last.op = "fit"
    /\ splatMesh # 0 /\ fitObs.v # splatMesh
    /\ geometry[fitObs.v] # geometry[splatMesh]
    /\ xf[splatMesh] # FreshTransform
    /\ xf[fitObs.v] # xf[splatMesh]

\* C39: while no session is presenting hitTestSource is null, and it never
\* holds a source that was requested in a session that has ended; each
\* session has at most one request outstanding.
C39_NoStaleHitTestSource ==
    /\ ~xr.session => xr.hitTestSource = "none"
    /\ xr.hitTestSource # "stale"
    /\ \A s \in xr.pending : s <= xr.sessions

\* ------------------------------------------------------- loading screen
\* Every loadSplat call is made by a scene pick or a scene switch, which
\* shows the loading screen, awaits the call's promise, and hides the screen
\* when it resolves or writes the error on it when it rejects.  A call made
\* during a load resolves at once, and only the latest call can be pending
\* or the last to settle, so the screen is as the latest call leaves it.
LoadingScreen ==
    IF calls = <<>> THEN "hidden"
    ELSE LET latest == calls[Len(calls)]
         IN IF latest.status = "pending" THEN "loading"
            ELSE IF latest.status = "resolved" THEN "hidden"
            ELSE "failed"

\* C40: the loading screen is hidden without an error only while no load
\* is in flight.
C40_ScreenHiddenOnlyWhenIdle ==
    LoadingScreen = "hidden" => (~isLoading /\ inflight = {})

============================================================================
